---------------------------- MODULE Spec2Model ----------------------------
(***************************************************************************)
(* The synthetic PCI function of varstored (src/pci.c) and the build-time  *)
(* auth-descriptor generator (src/unnamed/part_001, create-auth.c).       *)
(*                                                                         *)
(* 32-bit quantities are kept as their little-endian memory image, a       *)
(* 4-tuple of bytes, which is also how memcpy moves them in and out of     *)
(* the configuration space.  All arithmetic on them is modulo 2^32.        *)
(***************************************************************************)
EXTENDS Naturals, Integers, Sequences, FiniteSets, TLC

(***************************************************************************)
(* Bytes and 32-bit words                                                  *)
(***************************************************************************)
Byte == 0..255

RECURSIVE BitAnd(_, _, _)
BitAnd(a, b, n) ==
    IF n = 0 THEN 0
    ELSE (IF a % 2 = 1 /\ b % 2 = 1 THEN 1 ELSE 0)
         + 2 * BitAnd(a \div 2, b \div 2, n - 1)

\* the AND of two 4-bit values, tabulated once
AndNibble == [a \in 0..15 |-> [b \in 0..15 |-> BitAnd(a, b, 4)]]

And8(a, b) == AndNibble[a % 16][b % 16] + 16 * AndNibble[a \div 16][b \div 16]
Not8(a)    == 255 - a
Or8(a, b)  == a + b - And8(a, b)

And16(a, b) == And8(a % 256, b % 256) + 256 * And8(a \div 256, b \div 256)

And32(a, b) == [k \in 1..4 |-> And8(a[k], b[k])]
Or32(a, b)  == [k \in 1..4 |-> Or8(a[k], b[k])]
Not32(a)    == [k \in 1..4 |-> Not8(a[k])]

Zero32 == <<0, 0, 0, 0>>
Ones32 == <<255, 255, 255, 255>>

\* a + b modulo 2^32, byte by byte with carry
Add32(a, b) ==
    LET s1 == a[1] + b[1]
        s2 == a[2] + b[2] + (s1 \div 256)
        s3 == a[3] + b[3] + (s2 \div 256)
        s4 == a[4] + b[4] + (s3 \div 256)
    IN  <<s1 % 256, s2 % 256, s3 % 256, s4 % 256>>

\* a - 1 modulo 2^32
Dec32(a) == Add32(a, Ones32)

\* 1u << order, for order in 0..31
RECURSIVE Pow2(_)
Pow2(n) == IF n = 0 THEN 1 ELSE 2 * Pow2(n - 1)

Bit32(order) == [k \in 1..4 |-> IF (order \div 8) + 1 = k THEN Pow2(order % 8) ELSE 0]

\* the zero-extension of a uint8_t / uint16_t to 32 bits
FromU8(v)  == <<v, 0, 0, 0>>
FromU16(v) == <<v % 256, v \div 256, 0, 0>>

\* v << (8 * n) and v >> (8 * n) on a 32-bit word, n in 0..3
ShlBytes(v, n) == [k \in 1..4 |-> IF k - n >= 1 THEN v[k - n] ELSE 0]
ShrBytes(v, n) == [k \in 1..4 |-> IF k + n <= 4 THEN v[k + n] ELSE 0]

(***************************************************************************)
(* Constants of include/pci.h and of the PCI register layout               *)
(***************************************************************************)
PCI_CONFIG_SIZE        == 256
PCI_CONFIG_HEADER_SIZE == 64
PCI_NUM_BAR            == 6
PCI_BAR_UNMAPPED       == Ones32

PCI_VENDOR_ID           == 0
PCI_DEVICE_ID           == 2
PCI_COMMAND             == 4
PCI_REVISION_ID         == 8
PCI_CLASS_PROG          == 9
PCI_CLASS_DEVICE        == 10
PCI_CACHE_LINE_SIZE     == 12
PCI_HEADER_TYPE         == 14
PCI_BASE_ADDRESS_0      == 16
PCI_SUBSYSTEM_VENDOR_ID == 44
PCI_SUBSYSTEM_ID        == 46
PCI_INTERRUPT_LINE      == 60
PCI_INTERRUPT_PIN       == 61

PCI_COMMAND_IO           == 1
PCI_COMMAND_MEMORY       == 2
PCI_COMMAND_MASTER       == 4
PCI_COMMAND_INTX_DISABLE == 1024

PCI_BASE_ADDRESS_SPACE_IO == 1
PCI_BASE_ADDRESS_MEM_MASK == <<240, 255, 255, 255>>
PCI_BASE_ADDRESS_IO_MASK  == <<252, 255, 255, 255>>

Off    == 0..(PCI_CONFIG_SIZE - 1)
BarIdx == 0..(PCI_NUM_BAR - 1)

\* memcpy of a 16-bit / 32-bit value into a byte array at offset o
Put16(arr, o, v) == [arr EXCEPT ![o] = v % 256, ![o + 1] = v \div 256]
Put32(arr, o, w) == [arr EXCEPT ![o] = w[1], ![o + 1] = w[2],
                                ![o + 2] = w[3], ![o + 3] = w[4]]
\* memcpy of a 16-bit / 32-bit value out of a byte array at offset o
Get16(arr, o) == arr[o] + 256 * arr[o + 1]
Get32(arr, o) == <<arr[o], arr[o + 1], arr[o + 2], arr[o + 3]>>

\* memset(&arr[from], v, n)
MemSet(arr, from, v, n) ==
    [o \in DOMAIN arr |-> IF o >= from /\ o < from + n THEN v ELSE arr[o]]

BarReg(i) == PCI_BASE_ADDRESS_0 + (i * 4)

(***************************************************************************)
(* State                                                                   *)
(***************************************************************************)
VARIABLES
    bdf,      \* pci.bdf
    config,   \* pci.config[PCI_CONFIG_SIZE]
    mask,     \* pci.mask[PCI_CONFIG_SIZE]
    bar,      \* pci.bar[PCI_NUM_BAR]
    hvpci,    \* hypervisor: the (bus, device, function) triples mapped to the server
    hvio,     \* hypervisor: per BAR, the most recent I/O-range request
    calls,    \* hypervisor requests and handler callbacks of the last operation
    op,       \* the last operation (with its arguments when it changes no device state)
    ret,      \* its return value
    phase,    \* the device's lifecycle: "setup", "running", "teardown"
    gen       \* the auth generator's run (create-auth)

vars == <<bdf, config, mask, bar, hvpci, hvio, calls, op, ret, phase, gen>>
pciVars == <<bdf, config, mask, bar, hvpci, hvio, calls, op, ret, phase>>

\* static pci_t pci: zero-initialised
ZeroBar == [ops |-> {}, is_mmio |-> 0, enable |-> 0, addr |-> Zero32, size |-> Zero32]

NoReq == <<"none">>

PciInit ==
    /\ bdf = 0
    /\ config = [o \in Off |-> 0]
    /\ mask = [o \in Off |-> 0]
    /\ bar = [i \in BarIdx |-> ZeroBar]
    /\ hvpci = {}
    /\ hvio = [i \in BarIdx |-> NoReq]
    /\ calls = <<>>
    /\ op = <<"init">>
    /\ ret = 0
    /\ phase = "setup"

(***************************************************************************)
(* pci_device_register / pci_device_deregister                             *)
(***************************************************************************)
\* BadTriple without the test of the bus
BadTriple_BusUnchecked(info) ==
    \/ info.device \div 32 # 0
    \/ info.function \div 8 # 0

\* the test of lines 50-52: a field with bits outside its width
BadTriple(info) ==
    \/ info.bus \div 256 # 0
    \/ info.device \div 32 # 0
    \/ info.function \div 8 # 0

\* (bus << 8) | (device << 3) | function, as a uint16_t
MkBdf(bus, device, function) == (bus * 256 + device * 8 + function) % 65536

\* lines 57-67: the identity fields copied into the configuration space
RegisterConfig(cfg, info) ==
    LET c1 == Put16(cfg, PCI_VENDOR_ID, info.vendor_id)
        c2 == Put16(c1, PCI_DEVICE_ID, info.device_id)
        c3 == [c2 EXCEPT ![PCI_REVISION_ID] = info.revision,
                         ![PCI_CLASS_PROG] = info.prog_if,
                         ![PCI_CLASS_DEVICE + 1] = info.class,
                         ![PCI_CLASS_DEVICE] = info.subclass,
                         ![PCI_HEADER_TYPE] = info.header_type]
        c4 == Put16(c3, PCI_SUBSYSTEM_VENDOR_ID, info.subvendor_id)
        c5 == Put16(c4, PCI_SUBSYSTEM_ID, info.subdevice_id)
        c6 == Put16(c5, PCI_COMMAND, info.command)
    IN  [c6 EXCEPT ![PCI_INTERRUPT_PIN] = info.interrupt_pin]

\* RegisterMask with the memset of line 76 starting at offset 0
RegisterMask_WholeSpace(m) ==
    LET m1  == [m EXCEPT ![PCI_CACHE_LINE_SIZE] = 255,
                         ![PCI_INTERRUPT_LINE] = 255]
        val == PCI_COMMAND_IO + PCI_COMMAND_MEMORY + PCI_COMMAND_MASTER
               + PCI_COMMAND_INTX_DISABLE
        m2  == Put16(m1, PCI_COMMAND, val)
    IN  MemSet(m2, 0, 255, PCI_CONFIG_SIZE - PCI_CONFIG_HEADER_SIZE)

\* lines 69-77: the writable bits
RegisterMask(m) ==
    LET m1  == [m EXCEPT ![PCI_CACHE_LINE_SIZE] = 255,
                         ![PCI_INTERRUPT_LINE] = 255]
        val == PCI_COMMAND_IO + PCI_COMMAND_MEMORY + PCI_COMMAND_MASTER
               + PCI_COMMAND_INTX_DISABLE
        m2  == Put16(m1, PCI_COMMAND, val)
    IN  MemSet(m2, PCI_CONFIG_HEADER_SIZE, 255,
               PCI_CONFIG_SIZE - PCI_CONFIG_HEADER_SIZE)

\* rc is the hypervisor's answer to xc_hvm_map_pcidev_to_ioreq_server
pci_device_register(info, rc) ==
    /\ phase = "setup"
    /\ hvpci = {}
    /\ op' = <<"pci_device_register", info, rc>>
    /\ IF BadTriple(info)
       THEN /\ ret' = -1
            /\ calls' = <<>>
            /\ UNCHANGED <<bdf, config, mask, hvpci>>
       ELSE /\ bdf' = MkBdf(info.bus, info.device, info.function)
            /\ config' = RegisterConfig(config, info)
            /\ mask' = RegisterMask(mask)
            /\ calls' = << <<"xc_hvm_map_pcidev_to_ioreq_server",
                             info.bus, info.device, info.function>> >>
            /\ hvpci' = IF rc < 0 THEN hvpci
                        ELSE hvpci \cup {<<info.bus, info.device, info.function>>}
            /\ ret' = IF rc < 0 THEN -1 ELSE 0
    /\ UNCHANGED <<bar, hvio, phase, gen>>

pci_device_deregister ==
    LET bus      == And16(bdf \div 256, 255)
        device   == And16(bdf \div 8, 31)
        function == And16(bdf, 7)
    IN  /\ phase \in {"running", "teardown"}
        /\ hvpci # {}
        /\ op' = <<"pci_device_deregister">>
        /\ calls' = << <<"xc_hvm_unmap_pcidev_from_ioreq_server",
                         bus, device, function>> >>
        /\ hvpci' = hvpci \ {<<bus, device, function>>}
        /\ ret' = 0
        /\ phase' = "teardown"
        /\ UNCHANGED <<bdf, config, mask, bar, hvio, gen>>

(***************************************************************************)
(* pci_bar_register / pci_bar_deregister                                   *)
(***************************************************************************)
\* a bar_ops_t argument: the NULL pointer, or a table with the fields fns set
NullOps == [null |-> TRUE, fns |-> {}]
OpsTable(fns) == [null |-> FALSE, fns |-> fns]

\* BarRegisterFails without the test of bar->enable
BarRegisterFails_IgnoresEnable(index, ops) ==
    \/ index >= PCI_NUM_BAR
    \/ ops.null
    \/ "readb" \notin ops.fns
    \/ "writeb" \notin ops.fns

\* lines 120-131: the three rejections
BarRegisterFails(index, ops) ==
    \/ index >= PCI_NUM_BAR
    \/ bar[index].enable # 0
    \/ ops.null
    \/ "readb" \notin ops.fns
    \/ "writeb" \notin ops.fns

\* lines 139-140: the BAR's write mask, ~(size - 1)
BarMask(size) == Not32(Dec32(size))

pci_bar_register(index, type, order, ops) ==
    /\ phase = "setup"
    /\ op' = <<"pci_bar_register", index, type, order, ops>>
    /\ calls' = <<>>
    /\ IF BarRegisterFails(index, ops)
       THEN /\ ret' = -1
            /\ UNCHANGED <<config, mask, bar>>
       ELSE LET size == Bit32(order)
            IN  /\ bar' = [bar EXCEPT ![index] =
                             [ops     |-> ops.fns,
                              is_mmio |-> IF And8(type, PCI_BASE_ADDRESS_SPACE_IO) = 0
                                          THEN 1 ELSE 0,
                              enable  |-> 1,
                              addr    |-> PCI_BAR_UNMAPPED,
                              size    |-> size]]
                /\ config' = Put32(config, BarReg(index), FromU8(type))
                /\ mask' = Put32(mask, BarReg(index), BarMask(size))
                /\ ret' = 0
    /\ UNCHANGED <<bdf, hvpci, hvio, phase, gen>>

\* addr + size - 1, the last address of a BAR's range
RangeEnd(b) == Dec32(Add32(b.addr, b.size))

\* the effect of a hypervisor I/O-range request on the record kept per BAR
HvApply(h, cs) ==
    [i \in BarIdx |->
        LET mine == SelectSeq(cs, LAMBDA c:
                        /\ c[1] \in {"xc_hvm_map_io_range_to_ioreq_server",
                                     "xc_hvm_unmap_io_range_from_ioreq_server"}
                        /\ c[2] = i)
        IN  IF mine = <<>> THEN h[i] ELSE mine[Len(mine)]]

pci_bar_deregister(index) ==
    /\ phase \in {"running", "teardown"}
    /\ index \in BarIdx
    /\ op' = <<"pci_bar_deregister", index>>
    /\ calls' = IF bar[index].addr = PCI_BAR_UNMAPPED THEN <<>>
                ELSE << <<"xc_hvm_unmap_io_range_from_ioreq_server", index,
                          bar[index].is_mmio, bar[index].addr,
                          RangeEnd(bar[index])>> >>
    /\ hvio' = HvApply(hvio, calls')
    /\ ret' = 0
    /\ phase' = "teardown"
    /\ UNCHANGED <<bdf, config, mask, bar, hvpci, gen>>

(***************************************************************************)
(* pci_map_bar / pci_unmap_bar / pci_update_bar / pci_update_config        *)
(***************************************************************************)
\* MapBarCalls asking the hypervisor before telling the handler
MapBarCalls_HypervisorFirst(index, b) ==
    << <<"xc_hvm_map_io_range_to_ioreq_server", index, b.is_mmio,
         b.addr, RangeEnd(b)>> >>
    \o (IF "map" \in b.ops THEN << <<"ops->map", index, b.addr>> >> ELSE <<>>)

\* the calls of pci_map_bar(index), b being pci.bar[index]
MapBarCalls(index, b) ==
    (IF "map" \in b.ops THEN << <<"ops->map", index, b.addr>> >> ELSE <<>>)
    \o << <<"xc_hvm_map_io_range_to_ioreq_server", index, b.is_mmio,
            b.addr, RangeEnd(b)>> >>

\* the calls of pci_unmap_bar(index)
UnmapBarCalls(index, b) ==
    << <<"xc_hvm_unmap_io_range_from_ioreq_server", index, b.is_mmio,
         b.addr, RangeEnd(b)>> >>
    \o (IF "unmap" \in b.ops THEN << <<"ops->unmap", index>> >> ELSE <<>>)

\* WantedAddr with the two decode bits of COMMAND exchanged
WantedAddr_SwappedDecode(cfg, index, b) ==
    LET m    == BarMask(b.size)
        raw  == Get32(cfg, BarReg(index))
        cmd  == Get16(cfg, PCI_COMMAND)
        a1   == IF b.is_mmio # 0 THEN And32(raw, PCI_BASE_ADDRESS_MEM_MASK)
                ELSE And32(raw, PCI_BASE_ADDRESS_IO_MASK)
        a2   == IF \/ (And16(cmd, PCI_COMMAND_MEMORY) = 0 /\ b.is_mmio = 0)
                   \/ (And16(cmd, PCI_COMMAND_IO) = 0 /\ b.is_mmio # 0)
                THEN PCI_BAR_UNMAPPED ELSE a1
    IN  IF a2 = Zero32 \/ a2 = m THEN PCI_BAR_UNMAPPED ELSE a2

\* WantedAddr without the test of line 353 for the sizing value ~(size - 1)
WantedAddr_NoSizingTest(cfg, index, b) ==
    LET raw  == Get32(cfg, BarReg(index))
        cmd  == Get16(cfg, PCI_COMMAND)
        a1   == IF b.is_mmio # 0 THEN And32(raw, PCI_BASE_ADDRESS_MEM_MASK)
                ELSE And32(raw, PCI_BASE_ADDRESS_IO_MASK)
        a2   == IF \/ (And16(cmd, PCI_COMMAND_IO) = 0 /\ b.is_mmio = 0)
                   \/ (And16(cmd, PCI_COMMAND_MEMORY) = 0 /\ b.is_mmio # 0)
                THEN PCI_BAR_UNMAPPED ELSE a1
    IN  IF a2 = Zero32 THEN PCI_BAR_UNMAPPED ELSE a2

\* lines 336-354: the address the configuration space asks for
WantedAddr(cfg, index, b) ==
    LET m    == BarMask(b.size)
        raw  == Get32(cfg, BarReg(index))
        cmd  == Get16(cfg, PCI_COMMAND)
        a1   == IF b.is_mmio # 0 THEN And32(raw, PCI_BASE_ADDRESS_MEM_MASK)
                ELSE And32(raw, PCI_BASE_ADDRESS_IO_MASK)
        a2   == IF \/ (And16(cmd, PCI_COMMAND_IO) = 0 /\ b.is_mmio = 0)
                   \/ (And16(cmd, PCI_COMMAND_MEMORY) = 0 /\ b.is_mmio # 0)
                THEN PCI_BAR_UNMAPPED ELSE a1
    IN  IF a2 = Zero32 \/ a2 = m THEN PCI_BAR_UNMAPPED ELSE a2

\* UpdateBar without line 361: the recorded address survives the unmap
UpdateBar_KeepsAddr(cfg, index, b) ==
    IF b.enable = 0 THEN [bar |-> b, calls |-> <<>>]
    ELSE
      LET addr == WantedAddr(cfg, index, b)
      IN  IF b.addr = addr THEN [bar |-> b, calls |-> <<>>]
          ELSE
            LET un == IF b.addr # PCI_BAR_UNMAPPED
                      THEN [bar |-> b, calls |-> UnmapBarCalls(index, b)]
                      ELSE [bar |-> b, calls |-> <<>>]
            IN  IF addr # PCI_BAR_UNMAPPED
                THEN LET nb == [un.bar EXCEPT !.addr = addr]
                     IN  [bar |-> nb, calls |-> un.calls \o MapBarCalls(index, nb)]
                ELSE un

\* UpdateBar without the early return of line 356 for an unchanged address
UpdateBar_NoEarlyReturn(cfg, index, b) ==
    IF b.enable = 0 THEN [bar |-> b, calls |-> <<>>]
    ELSE
      LET addr == WantedAddr(cfg, index, b)
          un == IF b.addr # PCI_BAR_UNMAPPED
                THEN [bar   |-> [b EXCEPT !.addr = PCI_BAR_UNMAPPED],
                      calls |-> UnmapBarCalls(index, b)]
                ELSE [bar |-> b, calls |-> <<>>]
      IN  IF addr # PCI_BAR_UNMAPPED
          THEN LET nb == [un.bar EXCEPT !.addr = addr]
               IN  [bar |-> nb, calls |-> un.calls \o MapBarCalls(index, nb)]
          ELSE un

\* pci_update_bar(index): the BAR it leaves and the calls it makes
UpdateBar(cfg, index, b) ==
    IF b.enable = 0 THEN [bar |-> b, calls |-> <<>>]
    ELSE
      LET addr == WantedAddr(cfg, index, b)
      IN  IF b.addr = addr THEN [bar |-> b, calls |-> <<>>]
          ELSE
            LET un == IF b.addr # PCI_BAR_UNMAPPED
                      THEN [bar   |-> [b EXCEPT !.addr = PCI_BAR_UNMAPPED],
                            calls |-> UnmapBarCalls(index, b)]
                      ELSE [bar |-> b, calls |-> <<>>]
            IN  IF addr # PCI_BAR_UNMAPPED
                THEN LET nb == [un.bar EXCEPT !.addr = addr]
                     IN  [bar |-> nb, calls |-> un.calls \o MapBarCalls(index, nb)]
                ELSE un

\* pci_update_config(): pci_update_bar for i = 0 .. PCI_NUM_BAR - 1, in order
RECURSIVE UpdateCalls(_, _, _)
UpdateCalls(cfg, b, i) ==
    IF i >= PCI_NUM_BAR THEN <<>>
    ELSE UpdateBar(cfg, i, b[i]).calls \o UpdateCalls(cfg, b, i + 1)

UpdateBars(cfg, b) == [i \in BarIdx |-> UpdateBar(cfg, i, b[i]).bar]

(***************************************************************************)
(* pci_config_read / pci_config_write / pci_config_resume                  *)
(*                                                                         *)
(* A 64-bit address is the pair (hi, lo) of its upper and lower 32 bits.   *)
(***************************************************************************)
\* lines 396-401: the loop of pci_config_read, from iteration i on.
\* (uint32_t)0xff << (i + 8) is 0xff moved up by one byte and i bits more.
RECURSIVE ShlBits(_, _)
ShlBits(w, n) == IF n = 0 THEN w ELSE ShlBits(Add32(w, w), n - 1)

RECURSIVE ReadLoop(_, _, _, _, _)
ReadLoop(cfg, a, size, i, val) ==
    IF i >= size THEN val
    ELSE ReadLoop(cfg, a, size, i + 1,
                  IF a + i < PCI_CONFIG_SIZE
                  THEN Or32(val, ShlBytes(FromU8(cfg[a + i]), i))
                  ELSE Or32(val, ShlBits(FromU8(255), i + 8)))

ConfigRead(hi, lo, size) ==
    IF hi # bdf THEN Ones32
    ELSE ReadLoop(config, lo % 256, size, 0, Zero32)

pci_config_read(hi, lo, size) ==
    /\ phase = "running"
    /\ op' = <<"pci_config_read", hi, lo, size>>
    /\ ret' = ConfigRead(hi, lo, size)
    /\ calls' = <<>>
    /\ UNCHANGED <<bdf, config, mask, bar, hvpci, hvio, phase, gen>>

\* (uint8_t)(val >> (i * 8)): for i >= 4 the shift count is 32 or more, which
\* C leaves undefined; a build either masks the count (x86) or yields 0.
WrittenByte(val, i, ub) ==
    IF i < 4 THEN ShrBytes(val, i)[1]
    ELSE IF ub = "wrap" THEN ShrBytes(val, i % 4)[1] ELSE 0

\* MaskedByte with the mask applied to the old byte only
MaskedByte_Unmasked(old, m, w) == Or8(And8(old, Not8(m)), w)

\* lines 425-427: one byte under its write mask
MaskedByte(old, m, w) == Or8(And8(old, Not8(m)), And8(w, m))

\* lines 423-429: the loop of pci_config_write, from iteration i on
RECURSIVE WriteLoop(_, _, _, _, _, _, _)
WriteLoop(cfg, m, a, size, val, ub, i) ==
    IF i >= size THEN cfg
    ELSE WriteLoop(IF a + i < PCI_CONFIG_SIZE
                   THEN [cfg EXCEPT ![a + i] =
                            MaskedByte(cfg[a + i], m[a + i], WrittenByte(val, i, ub))]
                   ELSE cfg,
                   m, a, size, val, ub, i + 1)

\* line 414: the segment/bus/device/function the write is matched on
WriteSbdf(hi) == hi % 65536

\* WriteStart reduced modulo the size of the configuration space
WriteStart_Wraps(lo, size) == ((lo % 256) + (size \div 65536)) % 256

\* lines 419-421: the first offset and the length of the write
WriteStart(lo, size) == (lo % 256) + (size \div 65536)
WriteLen(size) == size % 65536

pci_config_write(hi, lo, size, val, ub) ==
    /\ phase \in {"running", "teardown"}
    /\ op' = <<"pci_config_write">>
    /\ ret' = 0
    /\ IF WriteSbdf(hi) # bdf
       THEN /\ calls' = <<>>
            /\ UNCHANGED <<config, bar, hvio>>
       ELSE /\ config' = WriteLoop(config, mask, WriteStart(lo, size),
                                   WriteLen(size), val, ub, 0)
            /\ bar' = UpdateBars(config', bar)
            /\ calls' = UpdateCalls(config', bar, 0)
            /\ hvio' = HvApply(hvio, calls')
    /\ UNCHANGED <<bdf, mask, hvpci, phase, gen>>

\* pci_config_resume storing the image under the write masks
pci_config_resume_Masked(data) ==
    /\ phase = "running"
    /\ op' = <<"pci_config_resume">>
    /\ ret' = 0
    /\ config' = [o \in Off |-> MaskedByte(config[o], mask[o], data[o])]
    /\ bar' = UpdateBars(config', bar)
    /\ calls' = UpdateCalls(config', bar, 0)
    /\ hvio' = HvApply(hvio, calls')
    /\ UNCHANGED <<bdf, mask, hvpci, phase, gen>>

pci_config_resume(data) ==
    /\ phase = "running"
    /\ op' = <<"pci_config_resume">>
    /\ ret' = 0
    /\ config' = data
    /\ bar' = UpdateBars(config', bar)
    /\ calls' = UpdateCalls(config', bar, 0)
    /\ hvio' = HvApply(hvio, calls')
    /\ UNCHANGED <<bdf, mask, hvpci, phase, gen>>

\* the device is handed to the request loop once it is registered
Start ==
    /\ phase = "setup"
    /\ hvpci # {}
    /\ phase' = "running"
    /\ op' = <<"start">>
    /\ calls' = <<>>
    /\ ret' = 0
    /\ UNCHANGED <<bdf, config, mask, bar, hvpci, hvio, gen>>

(***************************************************************************)
(* pci_bar_get / pci_bar_read / pci_bar_write                              *)
(*                                                                         *)
(* BAR addresses fit 32 bits; a handler's value is kept zero-extended to   *)
(* 32 bits, whatever the width of the handler.                             *)
(***************************************************************************)
\* a < b and a <= b on 32-bit words
Lt32(a, b) == \E k \in 1..4 : a[k] < b[k] /\ \A j \in (k + 1)..4 : a[j] = b[j]
Le32(a, b) == a = b \/ Lt32(a, b)

\* a - b modulo 2^32
Sub32(a, b) == Add32(a, Add32(Not32(b), <<1, 0, 0, 0>>))

\* the low w bytes of v: its conversion to a handler's uint8_t/uint16_t/uint32_t
Trunc(v, w) == [k \in 1..4 |-> IF k <= w THEN v[k] ELSE 0]

\* line 183: bar i claims addr
BarClaims(i, is_mmio, addr) ==
    /\ bar[i].enable # 0
    /\ bar[i].is_mmio = is_mmio
    /\ Le32(bar[i].addr, addr)
    /\ Lt32(addr, Add32(bar[i].addr, bar[i].size))

\* pci_bar_get: the index of the first BAR claiming addr, PCI_NUM_BAR for NULL
pci_bar_get(is_mmio, addr) ==
    IF \E i \in BarIdx : BarClaims(i, is_mmio, addr)
    THEN CHOOSE i \in BarIdx :
            /\ BarClaims(i, is_mmio, addr)
            /\ \A j \in BarIdx : BarClaims(j, is_mmio, addr) => i <= j
    ELSE PCI_NUM_BAR

\* the handler of each width
ReadFn(w)  == IF w = 1 THEN "readb" ELSE IF w = 2 THEN "readw" ELSE "readl"
WriteFn(w) == IF w = 1 THEN "writeb" ELSE IF w = 2 THEN "writew" ELSE "writel"

\* BarReadMacro with the shift advancing by 8 bits whatever the width
RECURSIVE BarReadMacro_ShiftByByte(_, _, _, _, _, _, _, _)
BarReadMacro_ShiftByByte(index, addr, size, count, rets, i, val, cs) ==
    IF i >= count THEN [val |-> val, calls |-> cs]
    ELSE BarReadMacro_ShiftByByte(index, Add32(addr, FromU8(size)), size, count,
                      rets, i + 1,
                      Or32(val, ShlBytes(Trunc(rets[i + 1], size), i)),
                      Append(cs, <<"ops->" \o ReadFn(size), index, addr,
                                   Trunc(rets[i + 1], size)>>))

\* PCI_BAR_READ: count reads of width size from addr on; rets[k] is what the
\* handler returns to the k-th of them.  The result is [val, calls].
RECURSIVE BarReadMacro(_, _, _, _, _, _, _, _)
BarReadMacro(index, addr, size, count, rets, i, val, cs) ==
    IF i >= count THEN [val |-> val, calls |-> cs]
    ELSE BarReadMacro(index, Add32(addr, FromU8(size)), size, count, rets, i + 1,
                      Or32(val, ShlBytes(Trunc(rets[i + 1], size), i * size)),
                      Append(cs, <<"ops->" \o ReadFn(size), index, addr,
                                   Trunc(rets[i + 1], size)>>))

\* one call of the handler of width w
NativeRead(index, addr, w, rets) ==
    [val   |-> Trunc(rets[1], w),
     calls |-> << <<"ops->" \o ReadFn(w), index, addr, Trunc(rets[1], w)>> >>]

\* lines 212-241 of pci_bar_read, index being the BAR pci_bar_get found
BarRead(index, is_mmio, addr, size, rets) ==
    LET b   == bar[index]
        off == Sub32(addr, b.addr)
    IN  IF size = 1 THEN NativeRead(index, off, 1, rets)
        ELSE IF size = 2
        THEN IF "readw" \notin b.ops
             THEN BarReadMacro(index, off, 1, 2, rets, 0, Zero32, <<>>)
             ELSE NativeRead(index, off, 2, rets)
        ELSE IF "readl" \notin b.ops
             THEN IF "readw" \notin b.ops
                  THEN BarReadMacro(index, off, 1, 4, rets, 0, Zero32, <<>>)
                  ELSE BarReadMacro(index, off, 2, 2, rets, 0, Zero32, <<>>)
             ELSE NativeRead(index, off, 4, rets)

pci_bar_read(is_mmio, addr, size, rets) ==
    /\ phase = "running"
    /\ size \in {1, 2, 4}
    /\ pci_bar_get(is_mmio, addr) # PCI_NUM_BAR
    /\ LET r == BarRead(pci_bar_get(is_mmio, addr), is_mmio, addr, size, rets)
       IN  /\ ret' = r.val
           /\ calls' = r.calls
    /\ op' = <<"pci_bar_read", is_mmio, addr, size>>
    /\ UNCHANGED <<bdf, config, mask, bar, hvpci, hvio, phase, gen>>

\* PCI_BAR_WRITE: line 249 clears the value, then count writes of width size
RECURSIVE BarWriteLoop(_, _, _, _, _, _, _)
BarWriteLoop(index, addr, size, count, val, i, cs) ==
    IF i >= count THEN cs
    ELSE BarWriteLoop(index, Add32(addr, FromU8(size)), size, count, val, i + 1,
                      Append(cs, <<"ops->" \o WriteFn(size), index, addr,
                                   Trunc(ShrBytes(val, i * size), size)>>))

BarWriteMacro(index, addr, size, count, val) ==
    BarWriteLoop(index, addr, size, count, Zero32, 0, <<>>)

\* one call of the handler of width w
NativeWrite(index, addr, w, val) ==
    << <<"ops->" \o WriteFn(w), index, addr, Trunc(val, w)>> >>

\* lines 265-292 of pci_bar_write: the handler calls it makes
BarWrite(index, is_mmio, addr, size, val) ==
    LET b   == bar[index]
        off == Sub32(addr, b.addr)
    IN  IF size = 1 THEN NativeWrite(index, off, 1, val)
        ELSE IF size = 2
        THEN IF "writew" \notin b.ops
             THEN BarWriteMacro(index, off, 1, 2, val)
             ELSE NativeWrite(index, off, 2, val)
        ELSE IF "writel" \notin b.ops
             THEN IF "writew" \notin b.ops
                  THEN BarWriteMacro(index, off, 1, 4, val)
                  ELSE BarWriteMacro(index, off, 2, 2, val)
             ELSE NativeWrite(index, off, 4, val)

pci_bar_write(is_mmio, addr, size, val) ==
    /\ phase = "running"
    /\ size \in {1, 2, 4}
    /\ pci_bar_get(is_mmio, addr) # PCI_NUM_BAR
    /\ calls' = BarWrite(pci_bar_get(is_mmio, addr), is_mmio, addr, size, val)
    /\ ret' = 0
    /\ op' = <<"pci_bar_write", is_mmio, addr, size, val>>
    /\ UNCHANGED <<bdf, config, mask, bar, hvpci, hvio, phase, gen>>

(***************************************************************************)
(* create-auth (src/unnamed/part_001): the build-time generator           *)
(*                                                                         *)
(* Buffers and the output file are sequences of bytes.  A certificate is   *)
(* kept as the DER encoding i2d_X509 gives for it; the PKCS#7 blob is      *)
(* whatever i2d_PKCS7 gives, with the buffer that was handed to the        *)
(* signing BIO recorded beside it.                                         *)
(***************************************************************************)
\* a UINT16 / UINT32 in memory: the low 2 / 4 bytes of n
LE16(n) == <<n % 256, (n \div 256) % 256>>
LE32(n) == <<n % 256, (n \div 256) % 256, (n \div 65536) % 256, (n \div 16777216) % 256>>

\* the UINT16 / UINT32 found at bytes from+1.. of b
RdLE16(b, from) == b[from + 1] + 256 * b[from + 2]
RdLE32(b, from) ==
    b[from + 1] + 256 * b[from + 2] + 65536 * b[from + 3] + 16777216 * b[from + 4]

\* sizes and values of include/efi.h and include/guid.h
SizeofEfiTime == 16
SizeofSignatureList == 28
OffsetofSignatureData == 16
OffsetofCertData == 24
OffsetofAuthCertData == SizeofEfiTime + OffsetofCertData
WIN_CERT_TYPE_EFI_GUID == 3825
ATTR_BRNV == 7
EFI_VARIABLE_TIME_BASED_AUTHENTICATED_WRITE_ACCESS == 32

gEfiGlobalVariableGuid ==
    <<97, 223, 228, 139, 202, 147, 210, 17, 170, 13, 0, 224, 152, 3, 43, 140>>
gEfiImageSecurityDatabaseGuid ==
    <<203, 178, 25, 215, 58, 61, 150, 69, 163, 188, 218, 208, 14, 103, 101, 111>>
gEfiCertX509Guid ==
    <<161, 89, 192, 165, 228, 148, 167, 74, 135, 181, 171, 21, 92, 43, 240, 114>>
gEfiCertPkcs7Guid ==
    <<157, 210, 175, 74, 223, 104, 238, 73, 138, 169, 52, 125, 55, 86, 101, 167>>

citrix_guid ==
    <<53, 197, 172, 192, 200, 37, 70, 100, 146, 91, 93, 215, 208, 178, 245, 170>>
microsoft_guid ==
    <<189, 154, 250, 119, 89, 3, 50, 77, 189, 96, 40, 244, 231, 143, 120, 75>>

\* variable names as C strings (ASCII codes)
NamePK  == <<80, 75>>
NameKEK == <<75, 69, 75>>
NameDb  == <<100, 98>>
NameDbx == <<100, 98, 120>>

\* SigListLoop with a SignatureListSize that leaves out the SignatureOwner
RECURSIVE SigListLoop_ListSizeWithoutOwner(_, _, _, _)
SigListLoop_ListSizeWithoutOwner(cert, vendor_guid, i, data) ==
    IF i >= Len(cert) THEN data
    ELSE LET len == Len(cert[i + 1])
             SignatureSize == OffsetofSignatureData + len
             SignatureListSize == SizeofSignatureList + len
         IN  SigListLoop_ListSizeWithoutOwner(cert, vendor_guid, i + 1,
                 data \o gEfiCertX509Guid \o LE32(SignatureListSize) \o LE32(0)
                      \o LE32(SignatureSize) \o vendor_guid \o cert[i + 1])

\* certs_to_sig_list: one EFI_SIGNATURE_LIST per certificate, each holding a
\* single EFI_SIGNATURE_DATA
RECURSIVE SigListLoop(_, _, _, _)
SigListLoop(cert, vendor_guid, i, data) ==
    IF i >= Len(cert) THEN data
    ELSE LET len == Len(cert[i + 1])
             SignatureSize == OffsetofSignatureData + len
             SignatureListSize == SizeofSignatureList + SignatureSize
         IN  SigListLoop(cert, vendor_guid, i + 1,
                 data \o gEfiCertX509Guid \o LE32(SignatureListSize) \o LE32(0)
                      \o LE32(SignatureSize) \o vendor_guid \o cert[i + 1])

certs_to_sig_list(cert, vendor_guid) == SigListLoop(cert, vendor_guid, 0, <<>>)

\* the buffer sign_data hands to the signing BIO
SignBuffer_VendorGuidAfterData(name, guid, attr, timestamp, data) ==
    name \o LE32(attr) \o timestamp \o data \o guid

SignBuffer(name, guid, attr, timestamp, data) ==
    name \o guid \o LE32(attr) \o timestamp \o data

\* sign_data: nothing is signed without a key; p7 is the DER of the PKCS#7
sign_data(key, name, guid, attr, timestamp, data, p7) ==
    IF ~key
    THEN [sig |-> <<>>, sig_len |-> 0, signed |-> FALSE, buf |-> <<>>]
    ELSE [sig |-> p7, sig_len |-> Len(p7), signed |-> TRUE,
          buf |-> SignBuffer(name, guid, attr, timestamp, data)]

\* create_descriptor: the descriptor up to AuthInfo.CertData
DwLength_WholeDescriptor(sig_len) == sig_len + OffsetofAuthCertData

DwLength(sig_len) == sig_len + OffsetofCertData

create_descriptor(sig_len, timestamp) ==
    timestamp \o LE32(DwLength(sig_len)) \o LE16(512)
              \o LE16(WIN_CERT_TYPE_EFI_GUID) \o gEfiCertPkcs7Guid

\* main: the "name" argument widened to 16-bit code units
Widen(arg) ==
    [k \in 1..(2 * Len(arg)) |-> IF k % 2 = 1 THEN arg[(k + 1) \div 2] % 256 ELSE 0]

\* main: the EFI_TIME made from gmtime()'s struct tm
MkTimestamp(tm) ==
    LE16((tm.tm_year + 1900) % 65536)
    \o <<tm.tm_mon + 1, tm.tm_mday, tm.tm_hour, tm.tm_min, tm.tm_sec, 0>>
    \o LE32(0) \o LE16(0) \o <<0, 0>>

\* UsageError without the check of the variable name
UsageError_AnyName(arg, key, signcert, cert) ==
    \/ key /\ ~signcert
    \/ ~key /\ signcert
    \/ Len(cert) < 1

\* main: the command line is rejected
UsageError(arg, key, signcert, cert) ==
    \/ key /\ ~signcert
    \/ ~key /\ signcert
    \/ Len(cert) < 1
    \/ arg \notin {NamePK, NameKEK, NameDb, NameDbx}

GenIdle ==
    [pc |-> "idle", arg |-> <<>>, cert |-> <<>>, name |-> <<>>, guid |-> <<>>,
     timestamp |-> <<>>, data |-> <<>>, signed |-> FALSE, buf |-> <<>>,
     sig |-> <<>>, file |-> <<>>]

\* main, from the command line to exit; fopen_ok is whether the output file
\* could be opened
main(arg, key, signcert, cert, tm, p7, fopen_ok) ==
    /\ gen.pc = "idle"
    /\ IF UsageError(arg, key, signcert, cert)
       THEN gen' = [GenIdle EXCEPT !.pc = "exit(1)", !.arg = arg, !.cert = cert]
       ELSE LET guid == IF arg \in {NamePK, NameKEK}
                        THEN gEfiGlobalVariableGuid
                        ELSE gEfiImageSecurityDatabaseGuid
                vendor_guid == IF arg = NamePK THEN citrix_guid ELSE microsoft_guid
                attr == ATTR_BRNV + EFI_VARIABLE_TIME_BASED_AUTHENTICATED_WRITE_ACCESS
                name == Widen(arg)
                timestamp == MkTimestamp(tm)
                data == certs_to_sig_list(cert, vendor_guid)
                s == sign_data(key, name, guid, attr, timestamp, data, p7)
                descriptor == create_descriptor(s.sig_len, timestamp)
            IN  gen' = [pc |-> IF fopen_ok THEN "exit(0)" ELSE "exit(1)",
                        arg |-> arg, cert |-> cert, name |-> name, guid |-> guid,
                        timestamp |-> timestamp, data |-> data,
                        signed |-> s.signed, buf |-> s.buf, sig |-> s.sig,
                        file |-> IF fopen_ok THEN descriptor \o s.sig \o data
                                 ELSE <<>>]
    /\ UNCHANGED pciVars

(***************************************************************************)
(* The device's run: registration, then configuration accesses             *)
(***************************************************************************)
\* the pci_info_t the device is registered with
DevInfo(bus, device, function) ==
    [bus |-> bus, device |-> device, function |-> function,
     vendor_id |-> 22611, device_id |-> 49408, revision |-> 1,
     prog_if |-> 0, class |-> 8, subclass |-> 128, header_type |-> 0,
     subvendor_id |-> 22611, subdevice_id |-> 1, command |-> PCI_COMMAND_IO,
     interrupt_pin |-> 1]

TheInfo == DevInfo(0, 3, 0)
TheBdf  == MkBdf(TheInfo.bus, TheInfo.device, TheInfo.function)

\* BAR registrations tried: (index, type, order, ops)
BasicOps == {"readb", "writeb"}
BarRegs ==
    { <<0, 0, 12, OpsTable(BasicOps \cup {"map", "unmap"})>>,
      <<0, 8, 2, OpsTable(BasicOps \cup {"map"})>>,
      <<1, PCI_BASE_ADDRESS_SPACE_IO, 4, OpsTable(BasicOps)>>,
      <<1, 0, 12, OpsTable({"readb"})>>,
      <<0, 0, 12, NullOps>>,
      <<PCI_NUM_BAR, 0, 12, OpsTable(BasicOps)>> }

\* configuration writes served: (hi, lo, size, val)
CfgWrites ==
    { <<TheBdf, PCI_COMMAND, 2, Zero32>>,
      <<TheBdf, PCI_COMMAND, 2, <<3, 0, 0, 0>> >>,
      <<TheBdf, PCI_COMMAND, 1, <<2, 0, 0, 0>> >>,
      <<TheBdf, BarReg(0), 4, <<0, 16, 0, 0>> >>,
      <<TheBdf, BarReg(0), 4, <<15, 32, 0, 0>> >>,
      <<TheBdf, BarReg(0), 4, Ones32>>,
      <<TheBdf, BarReg(0), 4, Zero32>>,
      <<TheBdf, BarReg(1), 4, <<1, 193, 0, 0>> >>,
      <<TheBdf, BarReg(1), 2, Ones32>>,
      <<TheBdf, PCI_VENDOR_ID, 4, Ones32>>,
      <<TheBdf, PCI_INTERRUPT_LINE, 2, Ones32>>,
      <<TheBdf, PCI_CONFIG_SIZE + PCI_CONFIG_HEADER_SIZE, 1, <<165, 0, 0, 0>> >>,
      <<TheBdf + 1, PCI_COMMAND, 2, Zero32>> }

\* images restored by pci_config_resume
ResumeImages ==
    { [o \in Off |-> 0],
      Put32(Put16([o \in Off |-> 0], PCI_COMMAND, PCI_COMMAND_MEMORY),
            BarReg(0), <<7, 48, 0, 0>>) }

Init ==
    /\ PciInit
    /\ gen = GenIdle

Next ==
    \/ \E rc \in {0, -1} : pci_device_register(TheInfo, rc)
    \/ \E r \in BarRegs : pci_bar_register(r[1], r[2], r[3], r[4])
    \/ Start
    \/ \E w \in CfgWrites : pci_config_write(w[1], w[2], w[3], w[4], "wrap")
    \/ \E data \in ResumeImages : pci_config_resume(data)

Spec == Init /\ [][Next]_vars

(***************************************************************************)
(* Properties of the configuration path (specification Spec)               *)
(***************************************************************************)
IsWrite  == op'[1] = "pci_config_write"
IsResume == op'[1] = "pci_config_resume"

\* the registers the specification names as writable
NamedWritable ==
    {PCI_COMMAND, PCI_COMMAND + 1, PCI_CACHE_LINE_SIZE, PCI_INTERRUPT_LINE}
    \cup {o \in Off : o >= PCI_BASE_ADDRESS_0 /\ o < BarReg(PCI_NUM_BAR)}

\* the device-specific area behind the header
DeviceSpecific == {o \in Off : o >= PCI_CONFIG_HEADER_SIZE}

\* C1 as stated: a configuration write changes no byte outside COMMAND, the BAR
\* registers, the cache-line-size register and the interrupt-line register.
C1_OnlyNamedRegistersChange ==
    [][IsWrite => \A o \in Off \ NamedWritable : config'[o] = config[o]]_vars

\* C1 amended: a configuration write changes no byte outside COMMAND, the BAR
\* registers, the cache-line-size register, the interrupt-line register and the
\* device-specific area at offsets 0x40..0xff, which registration makes writable.
C1_OnlyWritableRegistersChange ==
    [][IsWrite => \A o \in Off \ (NamedWritable \cup DeviceSpecific) :
                      config'[o] = config[o]]_vars

\* C1 witness: writes reached the device, one changed a device-specific byte and
\* the vendor ID, which a write in CfgWrites targets, still holds its value.
C1_Witness ==
    /\ op[1] = "pci_config_write"
    /\ config[PCI_CONFIG_HEADER_SIZE] = 165
    /\ config[PCI_INTERRUPT_LINE] = 255
    /\ Get16(config, PCI_VENDOR_ID) = TheInfo.vendor_id

\* offset o is covered by a write of size 1, 2 or 4 at lo
Covered(o, lo, size) == o >= lo % 256 /\ o < (lo % 256) + size

\* the identity fields pci_device_register sets
IdentityOffs ==
    {PCI_VENDOR_ID, PCI_VENDOR_ID + 1, PCI_DEVICE_ID, PCI_DEVICE_ID + 1,
     PCI_REVISION_ID, PCI_CLASS_PROG, PCI_CLASS_DEVICE, PCI_CLASS_DEVICE + 1,
     PCI_HEADER_TYPE, PCI_SUBSYSTEM_VENDOR_ID, PCI_SUBSYSTEM_VENDOR_ID + 1,
     PCI_SUBSYSTEM_ID, PCI_SUBSYSTEM_ID + 1, PCI_INTERRUPT_PIN}

\* the bits of a BAR register that hold its type, not its address
TypeBits(b) ==
    Not32(IF b.is_mmio # 0 THEN PCI_BASE_ADDRESS_MEM_MASK
          ELSE PCI_BASE_ADDRESS_IO_MASK)

\* every covered byte is the masked merge of old and written, the others are kept
MaskedMerge(w) ==
    \A o \in Off :
        config'[o] = IF Covered(o, w[2], w[3])
                     THEN LET wb == w[4][o - (w[2] % 256) + 1]
                              t  == And8(wb, mask[o])
                              k  == And8(config[o], 255 - mask[o])
                          IN  k + t
                     ELSE config[o]

IdentityKept == \A o \in IdentityOffs : config'[o] = config[o]

TypeBitsKept(i) ==
    And32(Get32(config', BarReg(i)), TypeBits(bar[i]))
        = And32(Get32(config, BarReg(i)), TypeBits(bar[i]))

\* a BAR at least as large as its type field: (size - 1) covers the type bits
CoversTypeBits(b) == And32(Dec32(b.size), TypeBits(b)) = TypeBits(b)

\* C2 as stated: a write addressed to the device's BDF merges each covered byte
\* under its mask and keeps every other byte; the identity fields and the type
\* bits of every registered BAR keep their values.
C2_MaskedWriteKeepsTypeBits ==
    [][\A w \in CfgWrites :
          (w[1] = bdf /\ pci_config_write(w[1], w[2], w[3], w[4], "wrap"))
          => /\ MaskedMerge(w)
             /\ IdentityKept
             /\ \A i \in BarIdx : bar[i].enable # 0 => TypeBitsKept(i)]_vars

\* C2 amended: the same, the type bits being kept for every registered BAR whose
\* size is at least that of its type field (16 bytes for memory, 4 for I/O).
C2_MaskedWrite ==
    [][\A w \in CfgWrites :
          (w[1] = bdf /\ pci_config_write(w[1], w[2], w[3], w[4], "wrap"))
          => /\ MaskedMerge(w)
             /\ IdentityKept
             /\ \A i \in BarIdx :
                   (bar[i].enable # 0 /\ CoversTypeBits(bar[i]))
                   => TypeBitsKept(i)]_vars

\* C2 witness: all-ones was written to a registered 4 KiB BAR, whose register
\* now reads ~(size - 1) with its type bits as registered.
C2_Witness ==
    /\ op[1] = "pci_config_write"
    /\ bar[0].enable # 0
    /\ bar[0].size = Bit32(12)
    /\ Get32(config, BarReg(0)) = <<0, 240, 255, 255>>
    /\ config[PCI_INTERRUPT_LINE] = 255
    /\ config[PCI_INTERRUPT_PIN] = TheInfo.interrupt_pin

\* the decode bit of a BAR's space is set in COMMAND
Decoding(b) ==
    LET cmd == Get16(config, PCI_COMMAND)
    IN  IF b.is_mmio # 0 THEN (cmd \div PCI_COMMAND_MEMORY) % 2 = 1
        ELSE (cmd \div PCI_COMMAND_IO) % 2 = 1

\* the address field of a BAR register: its value with the type bits cleared
AddrField(i) == And32(Get32(config, BarReg(i)), Not32(TypeBits(bar[i])))

Mappable(i) ==
    /\ Decoding(bar[i])
    /\ AddrField(i) # Zero32
    /\ AddrField(i) # Not32(Dec32(bar[i].size))

\* C6: after a configuration write or a resume, every registered BAR is recorded
\* as mapped at its register's address field when its decode bit is set and the
\* field is neither 0 nor ~(size - 1), and as unmapped otherwise.
C6_MappingAgreesWithConfig ==
    op[1] \in {"pci_config_write", "pci_config_resume"}
    => \A i \in BarIdx :
          bar[i].enable # 0
          => bar[i].addr = (IF Mappable(i) THEN AddrField(i) ELSE PCI_BAR_UNMAPPED)

\* C6 witness: a memory BAR mapped at its address field beside an I/O BAR whose
\* register holds an address while I/O decoding is off.
C6_Witness ==
    /\ op[1] = "pci_config_write"
    /\ bar[0].enable # 0 /\ bar[0].addr = <<0, 16, 0, 0>>
    /\ bar[1].enable # 0 /\ bar[1].addr = PCI_BAR_UNMAPPED
    /\ AddrField(1) # Zero32

\* the hypervisor I/O-range requests among cs that concern BAR i
IoReqs(i, cs) ==
    SelectSeq(cs, LAMBDA c:
        /\ c[1] \in {"xc_hvm_map_io_range_to_ioreq_server",
                     "xc_hvm_unmap_io_range_from_ioreq_server"}
        /\ c[2] = i)

\* a request may follow the one before it
Follows(prev, req) ==
    IF req[1] = "xc_hvm_map_io_range_to_ioreq_server"
    THEN prev[1] \in {"none", "xc_hvm_unmap_io_range_from_ioreq_server"}
    ELSE /\ prev[1] = "xc_hvm_map_io_range_to_ioreq_server"
         /\ <<prev[3], prev[4], prev[5]>> = <<req[3], req[4], req[5]>>

\* C7: for each BAR the hypervisor I/O-range requests alternate map, unmap,
\* map, ... beginning with a map, every request names [addr, addr + size - 1],
\* and every unmap names the range of the map before it.
C7_MapUnmapAlternate ==
    [][\A i \in BarIdx :
          LET chain == <<hvio[i]>> \o IoReqs(i, calls')
          IN  \A k \in 2..Len(chain) :
                 /\ Follows(chain[k - 1], chain[k])
                 /\ chain[k][5] = Dec32(Add32(chain[k][4], bar[i].size))]_vars

\* C7 witness: one operation moved a mapped BAR: it unmapped the old range and
\* mapped a new one.
C7_Witness ==
    \E i \in BarIdx :
        LET r == IoReqs(i, calls)
        IN  /\ Len(r) = 2
            /\ r[1][1] = "xc_hvm_unmap_io_range_from_ioreq_server"
            /\ r[2][1] = "xc_hvm_map_io_range_to_ioreq_server"
            /\ r[1][4] # r[2][4]

(***************************************************************************)
(* The device's identity: registration under any triple, accesses by       *)
(* address, deregistration (specification SpecDev)                         *)
(***************************************************************************)
Buses     == {0, 1, 255, 256}
Devices   == {0, 31, 32}
Functions == {0, 7, 8}

\* upper address halves tried against the registered device: its own, its own
\* with a bit set above the low 16, and a neighbour's
DevHis == {bdf, bdf + 65536, (bdf + 1) % 65536}

\* configuration reads served: (lo, size)
DevReads ==
    { <<PCI_VENDOR_ID, 4>>, <<PCI_INTERRUPT_LINE, 2>>, <<PCI_INTERRUPT_PIN, 1>>,
      <<PCI_CONFIG_SIZE - 3, 4>>, <<PCI_CONFIG_SIZE - 1, 2>>,
      <<PCI_CONFIG_SIZE - 1, 1>>, <<PCI_CONFIG_SIZE + PCI_DEVICE_ID, 2>> }

\* configuration writes served: (lo, size, val)
DevWrites ==
    { <<PCI_INTERRUPT_LINE, 1, <<90, 0, 0, 0>> >>,
      <<PCI_CONFIG_SIZE - 2, 2, <<18, 52, 0, 0>> >>,
      <<PCI_VENDOR_ID, 2, Ones32>> }

NextDev ==
    \/ \E bus \in Buses, device \in Devices, function \in Functions, rc \in {0, -1} :
          pci_device_register(DevInfo(bus, device, function), rc)
    \/ Start
    \/ \E hi \in DevHis, r \in DevReads : pci_config_read(hi, r[1], r[2])
    \/ \E hi \in DevHis, w \in DevWrites :
          pci_config_write(hi, w[1], w[2], w[3], "wrap")
    \/ pci_device_deregister

SpecDev == Init /\ [][NextDev]_vars

\* C3 as stated: byte i of a read addressed to the device is the stored byte at
\* offset (addr AND 0xff) + i when that offset is below 256, and 0xFF otherwise.
C3_ReadBytes ==
    (op[1] = "pci_config_read" /\ op[2] = bdf)
    => \A i \in 0..(op[4] - 1) :
          ret[i + 1] = IF (op[3] % 256) + i < PCI_CONFIG_SIZE
                       THEN config[(op[3] % 256) + i]
                       ELSE 255

\* the part of C3 that holds: the bytes read from inside the space
C3_ReadBytesInside ==
    (op[1] = "pci_config_read" /\ op[2] = bdf)
    => \A i \in 0..(op[4] - 1) :
          (op[3] % 256) + i < PCI_CONFIG_SIZE
          => And8(ret[i + 1], config[(op[3] % 256) + i]) = config[(op[3] % 256) + i]

\* the registered triple as pci_device_deregister recovers it
RegisteredTriple == <<bdf \div 256, (bdf \div 8) % 32, bdf % 8>>

\* C8, registration: a valid triple is mapped with the hypervisor and recorded
C8_Registers ==
    [][(op'[1] = "pci_device_register" /\ ~BadTriple(op'[2]))
       => LET i == op'[2]
          IN  /\ calls' = << <<"xc_hvm_map_pcidev_to_ioreq_server",
                               i.bus, i.device, i.function>> >>
              /\ bdf' = i.bus * 256 + i.device * 8 + i.function
              /\ RegisteredTriple' = <<i.bus, i.device, i.function>>]_vars

\* C8, deregistration: the triple unmapped is the one that was mapped
C8_Deregisters ==
    [][op'[1] = "pci_device_deregister"
       => \E t \in hvpci :
             /\ calls' = << <<"xc_hvm_unmap_pcidev_from_ioreq_server",
                              t[1], t[2], t[3]>> >>
             /\ hvpci' = {}]_vars

\* C8, reads: a read whose upper 32 bits are not the bdf gets all-ones
C8_ReadsMatchBdf ==
    (op[1] = "pci_config_read" /\ op[2] # bdf) => ret = Ones32

\* C8 as stated: registration maps and records the triple, deregistration unmaps
\* the same triple, and a configuration access is accepted only when the upper
\* 32 bits of its address equal the bdf.
C8_TripleAndAddressMatch ==
    [][/\ (op'[1] = "pci_device_register" /\ ~BadTriple(op'[2]))
          => LET i == op'[2]
             IN  /\ calls' = << <<"xc_hvm_map_pcidev_to_ioreq_server",
                                  i.bus, i.device, i.function>> >>
                 /\ bdf' = i.bus * 256 + i.device * 8 + i.function
       /\ op'[1] = "pci_device_deregister"
          => \E t \in hvpci :
                calls' = << <<"xc_hvm_unmap_pcidev_from_ioreq_server",
                              t[1], t[2], t[3]>> >>
       /\ (op'[1] = "pci_config_read" /\ op'[2] # bdf) => ret' = Ones32
       /\ \A hi \in DevHis, w \in DevWrites :
             (hi # bdf /\ pci_config_write(hi, w[1], w[2], w[3], "wrap"))
             => config' = config]_vars

(***************************************************************************)
(* Accesses to a mapped BAR (specification SpecBar)                        *)
(***************************************************************************)
\* the widths of an access
AccessSizes == {1, 2, 4}

WordOps == {"readw", "writew"}
LongOps == {"readl", "writel"}

\* BAR registrations tried: (index, type, order, ops)
BarAccessRegs ==
    { <<0, 0, 4, OpsTable(BasicOps)>>,
      <<0, 0, 4, OpsTable(BasicOps \cup WordOps)>>,
      <<0, 0, 4, OpsTable(BasicOps \cup LongOps)>>,
      <<0, 0, 4, OpsTable(BasicOps \cup WordOps \cup LongOps)>>,
      <<0, 0, 4, OpsTable(BasicOps \cup {"readw", "writel"})>>,
      <<1, PCI_BASE_ADDRESS_SPACE_IO, 3, OpsTable(BasicOps \cup {"readl", "writew"})>> }

\* configuration writes that place the BARs: (lo, size, val)
BarAccessWrites ==
    { <<PCI_COMMAND, 2, <<3, 0, 0, 0>> >>,
      <<BarReg(0), 4, <<0, 16, 0, 0>> >>,
      <<BarReg(1), 4, <<0, 193, 0, 0>> >> }

\* distances of an access from the start of its BAR
BarAccessOffs == {0, 1, 4}

\* what a handler returns, before conversion to its return type
BarRetVals == { <<18, 52, 86, 120>>, <<255, 128, 129, 254>> }

\* values written
BarWriteVals == { <<120, 86, 52, 18>>, <<0, 255, 0, 128>>, Zero32 }

NextBar ==
    \/ pci_device_register(TheInfo, 0)
    \/ \E r \in BarAccessRegs : pci_bar_register(r[1], r[2], r[3], r[4])
    \/ Start
    \/ \E w \in BarAccessWrites : pci_config_write(bdf, w[1], w[2], w[3], "wrap")
    \/ \E i \in BarIdx, d \in BarAccessOffs, size \in AccessSizes,
          rets \in [1..4 -> BarRetVals] :
          /\ bar[i].enable # 0
          /\ bar[i].addr # PCI_BAR_UNMAPPED
          /\ pci_bar_read(bar[i].is_mmio, Add32(bar[i].addr, FromU8(d)), size, rets)
    \/ \E i \in BarIdx, d \in BarAccessOffs, size \in AccessSizes,
          val \in BarWriteVals :
          /\ bar[i].enable # 0
          /\ bar[i].addr # PCI_BAR_UNMAPPED
          /\ pci_bar_write(bar[i].is_mmio, Add32(bar[i].addr, FromU8(d)), size, val)

SpecBar == Init /\ [][NextBar]_vars

\* the BAR an access was routed to, and its offset in that BAR
AccessBar == pci_bar_get(op[2], op[3])
AccessOff == Sub32(op[3], bar[AccessBar].addr)

\* the width of the pieces of an access of width size on handlers fns
PieceWidth(size, fns, kind) ==
    IF kind \o (IF size = 2 THEN "w" ELSE IF size = 4 THEN "l" ELSE "b") \in fns
    THEN size
    ELSE IF size = 4 /\ (kind \o "w") \in fns THEN 2 ELSE 1

\* bytes from..(from + w - 1) of v, as a value of width w
Piece(v, from, w) == [k \in 1..4 |-> IF k <= w THEN v[from + k] ELSE 0]

\* C4 as stated: a write of width 2 or 4 to a BAR lacking the handler of that
\* width reaches the handler as word writes (a 4-byte access with a word
\* handler) or byte writes at consecutive ascending offsets, carrying the
\* successive little-endian pieces of the written value.
C4_WriteDecomposed ==
    (/\ op[1] = "pci_bar_write"
     /\ op[4] \in {2, 4}
     /\ PieceWidth(op[4], bar[AccessBar].ops, "write") # op[4])
    => LET w == PieceWidth(op[4], bar[AccessBar].ops, "write")
           n == op[4] \div w
       IN  /\ Len(calls) = n
           /\ \A k \in 1..n :
                 /\ calls[k][1] = "ops->write" \o (IF w = 2 THEN "w" ELSE "b")
                 /\ calls[k][3] = Add32(AccessOff, FromU8((k - 1) * w))
                 /\ calls[k][4] = Piece(op[5], (k - 1) * w, w)

\* the part of C4 that holds: the narrower handler, the number of calls and
\* their offsets
C4_WriteOffsets ==
    (/\ op[1] = "pci_bar_write"
     /\ op[4] \in {2, 4}
     /\ PieceWidth(op[4], bar[AccessBar].ops, "write") # op[4])
    => LET w == PieceWidth(op[4], bar[AccessBar].ops, "write")
           n == op[4] \div w
       IN  /\ Len(calls) = n
           /\ \A k \in 1..n :
                 /\ calls[k][1] = "ops->write" \o (IF w = 2 THEN "w" ELSE "b")
                 /\ calls[k][3] = Add32(AccessOff, FromU8((k - 1) * w))

\* C5: a read of width 2 or 4 from a BAR lacking the handler of that width is
\* the little-endian composition of word reads (a 4-byte access with a word
\* handler) or byte reads at consecutive ascending offsets from addr - bar.addr;
\* with the handler of the requested width, one call at that offset is made and
\* its value returned.
C5_ReadComposed ==
    op[1] = "pci_bar_read"
    => LET w == PieceWidth(op[4], bar[AccessBar].ops, "read")
           n == op[4] \div w
       IN  /\ Len(calls) = n
           /\ \A k \in 1..n :
                 /\ calls[k][1] = "ops->read"
                       \o (IF w = 4 THEN "l" ELSE IF w = 2 THEN "w" ELSE "b")
                 /\ calls[k][3] = Add32(AccessOff, FromU8((k - 1) * w))
                 /\ \A j \in 1..w : ret[(k - 1) * w + j] = calls[k][4][j]
           /\ \A j \in (op[4] + 1)..4 : ret[j] = 0

\* C5 witness: a 4-byte read one byte into a BAR with byte and word handlers
\* only, composed of two word reads of different values.
C5_Witness ==
    /\ op[1] = "pci_bar_read"
    /\ op[4] = 4
    /\ AccessOff = <<1, 0, 0, 0>>
    /\ Len(calls) = 2
    /\ calls[1][1] = "ops->readw"
    /\ calls[1][4] # calls[2][4]
    /\ ret[4] >= 128

(***************************************************************************)
(* Runs of the generator (specification SpecGen)                           *)
(***************************************************************************)
MaxCerts == 2

\* DER encodings standing for the certificates given and for the PKCS#7
CertDers == { <<48, 1, 7>>, <<48, 2, 5, 9>> }
P7Ders == { <<48, 0>>, <<48, 3, 2, 1, 0>> }

CertLists == UNION { [1..n -> CertDers] : n \in 0..MaxCerts }

\* "name" arguments, the last one ("dbt") unsupported
NameArgs == {NamePK, NameKEK, NameDb, NameDbx, <<100, 98, 116>>}

\* what gmtime() gives
Tms ==
    { [tm_year |-> 126, tm_mon |-> 10, tm_mday |-> 5, tm_hour |-> 15,
       tm_min |-> 56, tm_sec |-> 6],
      [tm_year |-> 137, tm_mon |-> 0, tm_mday |-> 1, tm_hour |-> 0,
       tm_min |-> 0, tm_sec |-> 60] }

NextGen ==
    \E arg \in NameArgs, key \in BOOLEAN, signcert \in BOOLEAN, cert \in CertLists,
       tm \in Tms, p7 \in P7Ders, fopen_ok \in BOOLEAN :
       main(arg, key, signcert, cert, tm, p7, fopen_ok)

SpecGen == Init /\ [][NextGen]_vars

\* the dwLength a parser reads in the file, and where it then expects the
\* payload to start
FileDwLength == RdLE32(gen.file, SizeofEfiTime)
FileSkip == SizeofEfiTime + FileDwLength

\* C9: the file written is descriptor header, PKCS#7, payload; dwLength is the
\* size of the WIN_CERTIFICATE_UEFI_GUID header plus the PKCS#7 length, so
\* skipping sizeof(EFI_TIME) + dwLength bytes lands on the first byte of the
\* EFI_SIGNATURE_LIST payload and the file is that long plus the payload;
\* wRevision is 0x0200, wCertificateType WIN_CERT_TYPE_EFI_GUID and CertType
\* the PKCS7 GUID.
C9_FileLayout ==
    gen.pc = "exit(0)"
    => /\ FileDwLength = OffsetofCertData + Len(gen.sig)
       /\ Len(gen.file) = FileSkip + Len(gen.data)
       /\ SubSeq(gen.file, OffsetofAuthCertData + 1, FileSkip) = gen.sig
       /\ SubSeq(gen.file, FileSkip + 1, Len(gen.file)) = gen.data
       /\ SubSeq(gen.file, FileSkip + 1, FileSkip + 16) = gEfiCertX509Guid
       /\ RdLE16(gen.file, 20) = 512
       /\ RdLE16(gen.file, 22) = WIN_CERT_TYPE_EFI_GUID
       /\ SubSeq(gen.file, 25, 40) = gEfiCertPkcs7Guid

\* C9 witness: a signed file for KEK holding two certificates
C9_Witness ==
    /\ gen.pc = "exit(0)"
    /\ gen.arg = NameKEK
    /\ gen.signed
    /\ Len(gen.sig) = 5
    /\ FileDwLength = 29
    /\ Len(gen.file) = 40 + 5 + (44 + 3) + (44 + 4)

\* C10: the signed message is the name widened to 16-bit little-endian code
\* units without terminator, the variable's GUID, the attributes, the
\* timestamp and the payload; the timestamp is the TimeStamp of the descriptor
\* in the file and is normalized, and the payload is the payload at the end of
\* the file.
C10_SignedMessage ==
    (gen.signed /\ gen.pc = "exit(0)")
    => LET n == Len(gen.arg)
           m == gen.buf
       IN  /\ Len(m) = 2 * n + 16 + 4 + 16 + (Len(gen.file) - FileSkip)
           /\ \A i \in 1..n : m[2 * i - 1] = gen.arg[i] /\ m[2 * i] = 0
           /\ SubSeq(m, 2 * n + 1, 2 * n + 16) =
                 (IF gen.arg \in {NamePK, NameKEK} THEN gEfiGlobalVariableGuid
                  ELSE gEfiImageSecurityDatabaseGuid)
           /\ RdLE32(m, 2 * n + 16) =
                 ATTR_BRNV + EFI_VARIABLE_TIME_BASED_AUTHENTICATED_WRITE_ACCESS
           /\ SubSeq(m, 2 * n + 21, 2 * n + 36) = SubSeq(gen.file, 1, SizeofEfiTime)
           /\ \A k \in 8..16 : gen.file[k] = 0
           /\ SubSeq(m, 2 * n + 37, Len(m)) =
                 SubSeq(gen.file, FileSkip + 1, Len(gen.file))

\* C10 witness: a message signed for dbx over a payload of two certificates
C10_Witness ==
    /\ gen.signed
    /\ gen.pc = "exit(0)"
    /\ gen.arg = NameDbx
    /\ Len(gen.buf) = 6 + 36 + 95
    /\ gen.buf[42] = 0
    /\ gen.buf[43] = gEfiCertX509Guid[1]

\* the payload a parser finds in the file
FilePayload == SubSeq(gen.file, FileSkip + 1, Len(gen.file))

\* the EFI_SIGNATURE_LISTs a parser finds in b from byte p on, each taken to
\* be as long as its SignatureListSize says
RECURSIVE ParseLists(_, _)
ParseLists(b, p) ==
    IF p + SizeofSignatureList > Len(b) THEN <<>>
    ELSE LET l == [start |-> p,
                   SignatureType |-> SubSeq(b, p + 1, p + 16),
                   SignatureListSize |-> RdLE32(b, p + 16),
                   SignatureHeaderSize |-> RdLE32(b, p + 20),
                   SignatureSize |-> RdLE32(b, p + 24),
                   SignatureOwner |-> SubSeq(b, p + 29, p + 44)]
         IN  IF l.SignatureListSize < SizeofSignatureList THEN <<l>>
             ELSE <<l>> \o ParseLists(b, p + l.SignatureListSize)

SupportedNames == {NamePK, NameKEK, NameDb, NameDbx}

\* C11: only PK, KEK, db and dbx are accepted, any other name exits with
\* failure and writes no file; the signed message holds the Global-variable
\* GUID for PK and KEK and the Image-Security-Database GUID for db and dbx;
\* the signed attributes are NV+BS+RT+TBAW; every signature entry's
\* SignatureOwner is the fixed vendor GUID for PK and the Microsoft GUID for
\* KEK, db and dbx.
C11_NamesAndGuids ==
    /\ (gen.pc # "idle" /\ gen.arg \notin SupportedNames)
       => (gen.pc = "exit(1)" /\ gen.file = <<>> /\ ~gen.signed)
    /\ gen.signed
       => LET n == Len(gen.arg)
          IN  /\ SubSeq(gen.buf, 2 * n + 1, 2 * n + 16) =
                    (IF gen.arg \in {NamePK, NameKEK}
                     THEN gEfiGlobalVariableGuid
                     ELSE gEfiImageSecurityDatabaseGuid)
              /\ RdLE32(gen.buf, 2 * n + 16) = 1 + 2 + 4 + 32
    /\ gen.pc = "exit(0)"
       => LET ls == ParseLists(FilePayload, 0)
          IN  /\ Len(ls) >= 1
              /\ \A k \in 1..Len(ls) :
                    ls[k].SignatureOwner =
                       (IF gen.arg = NamePK THEN citrix_guid ELSE microsoft_guid)

\* C11 witness: a signed file for PK with two signature entries
C11_Witness ==
    /\ gen.pc = "exit(0)"
    /\ gen.arg = NamePK
    /\ gen.signed
    /\ Len(ParseLists(FilePayload, 0)) = 2
    /\ ParseLists(FilePayload, 0)[2].SignatureOwner = citrix_guid

RECURSIVE SumListSizes(_, _)
SumListSizes(ls, k) ==
    IF k > Len(ls) THEN 0 ELSE ls[k].SignatureListSize + SumListSizes(ls, k + 1)

\* C15: each certificate yields one EFI_SIGNATURE_LIST with
\* SignatureHeaderSize = 0, SignatureSize = 16 + DER length and
\* SignatureListSize = list-header size + SignatureSize, so each list holds
\* exactly one entry by the list-size formula; the lists lie back to back in
\* argument order and their SignatureListSize fields add up to the payload
\* length.
C15_SignatureLists ==
    gen.pc = "exit(0)"
    => LET ls == ParseLists(FilePayload, 0)
       IN  /\ Len(ls) = Len(gen.cert)
           /\ SumListSizes(ls, 1) = Len(FilePayload)
           /\ \A k \in 1..Len(ls) :
                 /\ ls[k].start = (IF k = 1 THEN 0
                                   ELSE ls[k - 1].start + ls[k - 1].SignatureListSize)
                 /\ ls[k].SignatureType = gEfiCertX509Guid
                 /\ ls[k].SignatureHeaderSize = 0
                 /\ ls[k].SignatureSize = 16 + Len(gen.cert[k])
                 /\ ls[k].SignatureListSize = 28 + ls[k].SignatureSize
                 /\ (ls[k].SignatureListSize - 28 - ls[k].SignatureHeaderSize)
                       \div ls[k].SignatureSize = 1
                 /\ SubSeq(FilePayload, ls[k].start + 28 + 16 + 1,
                           ls[k].start + ls[k].SignatureListSize) = gen.cert[k]

\* C15 witness: two certificates of different DER lengths, the longer first
C15_Witness ==
    /\ gen.pc = "exit(0)"
    /\ Len(gen.cert) = 2
    /\ Len(gen.cert[1]) = 4
    /\ Len(gen.cert[2]) = 3
    /\ ParseLists(FilePayload, 0)[1].SignatureListSize = 48
    /\ ParseLists(FilePayload, 0)[2].start = 48
    /\ Len(FilePayload) = 95

(***************************************************************************)
(* Further properties of the configuration path (specification Spec)       *)
(***************************************************************************)
\* the calls of the step just taken that concern BAR i
CallsOf(i) ==
    SelectSeq(calls', LAMBDA c : c[1] # "xc_hvm_map_pcidev_to_ioreq_server" /\ c[2] = i)

\* BAR i moves from one mapped address to another in this step
Remapped(i) ==
    /\ bar[i].addr # PCI_BAR_UNMAPPED
    /\ bar'[i].addr # PCI_BAR_UNMAPPED
    /\ bar'[i].addr # bar[i].addr

\* C12: when a BAR moves from one mapped address to another, the calls are,
\* in this order: hypervisor unmap of the old range, the handler's unmap, the
\* handler's map with the new (now recorded) address, hypervisor map of the
\* new range; so the handler's map is never called while the old range is
\* mapped and its unmap never precedes the hypervisor unmap.
C12_RemapOrder ==
    [][\A i \in BarIdx :
          Remapped(i)
          => CallsOf(i) =
               << <<"xc_hvm_unmap_io_range_from_ioreq_server", i, bar[i].is_mmio,
                    bar[i].addr, Dec32(Add32(bar[i].addr, bar[i].size))>> >>
               \o (IF "unmap" \in bar[i].ops THEN << <<"ops->unmap", i>> >> ELSE <<>>)
               \o (IF "map" \in bar[i].ops
                   THEN << <<"ops->map", i, bar'[i].addr>> >> ELSE <<>>)
               \o << <<"xc_hvm_map_io_range_to_ioreq_server", i, bar[i].is_mmio,
                       bar'[i].addr, Dec32(Add32(bar'[i].addr, bar[i].size))>> >>
    ]_vars

\* C12 witness: BAR 0, with both callbacks, has just moved to 0x2000
C12_Witness ==
    /\ op[1] = "pci_config_write"
    /\ Len(calls) = 4
    /\ calls[1][1] = "xc_hvm_unmap_io_range_from_ioreq_server"
    /\ calls[2] = <<"ops->unmap", 0>>
    /\ calls[3] = <<"ops->map", 0, <<0, 32, 0, 0>> >>
    /\ calls[4][1] = "xc_hvm_map_io_range_to_ioreq_server"
    /\ calls[1][4] # calls[4][4]

\* C14: pci_bar_register returns -1 and leaves the slot, the configuration
\* space and the write mask unchanged when index >= PCI_NUM_BAR, the slot is
\* already registered, or the handler table is missing or lacks the byte-read
\* or byte-write handler; on success the slot is enabled and unmapped with
\* size 2^order, the BAR register holds the type value and the BAR's write
\* mask is ~(size - 1).
C14_BarRegister ==
    [][\A r \in BarRegs :
          pci_bar_register(r[1], r[2], r[3], r[4])
          => IF \/ r[1] >= PCI_NUM_BAR
                \/ bar[r[1]].enable # 0
                \/ r[4].null
                \/ ~({"readb", "writeb"} \subseteq r[4].fns)
             THEN /\ ret' = -1
                  /\ bar' = bar
                  /\ config' = config
                  /\ mask' = mask
             ELSE /\ ret' = 0
                  /\ bar'[r[1]].enable # 0
                  /\ bar'[r[1]].addr = PCI_BAR_UNMAPPED
                  /\ bar'[r[1]].size = LE32(Pow2(r[3]))
                  /\ \A j \in BarIdx \ {r[1]} : bar'[j] = bar[j]
                  /\ \A o \in Off :
                        LET k == o - (PCI_BASE_ADDRESS_0 + 4 * r[1])
                        IN  IF k >= 0 /\ k < 4
                            THEN /\ config'[o] = (IF k = 0 THEN r[2] ELSE 0)
                                 /\ mask'[o] = 255 - LE32(Pow2(r[3]) - 1)[k + 1]
                            ELSE /\ config'[o] = config[o]
                                 /\ mask'[o] = mask[o]
    ]_vars

\* C14 witness: a second registration of BAR 0 was rejected and the slot is
\* as its first registration left it
C14_Witness ==
    /\ op[1] = "pci_bar_register"
    /\ op[2] = 0
    /\ op[3] = 8
    /\ ret = -1
    /\ bar[0].enable # 0
    /\ bar[0].size = <<0, 16, 0, 0>>
    /\ Get32(config, BarReg(0)) = Zero32
    /\ Get32(mask, BarReg(0)) = <<0, 240, 255, 255>>

(***************************************************************************)
(* Further properties of the device's identity (specification SpecDev)     *)
(***************************************************************************)
\* C16: pci_device_register with bus > 0xff, device > 0x1f or function > 0x07
\* returns -1 without asking the hypervisor to map a PCI device and without
\* modifying the configuration space, the write mask or the recorded bdf.
C16_BadTripleRejected ==
    [][\A bus \in Buses, device \in Devices, function \in Functions, rc \in {0, -1} :
          (/\ bus > 255 \/ device > 31 \/ function > 7
           /\ pci_device_register(DevInfo(bus, device, function), rc))
          => /\ ret' = -1
             /\ calls' = <<>>
             /\ hvpci' = hvpci
             /\ config' = config
             /\ mask' = mask
             /\ bdf' = bdf
    ]_vars

\* C16 witness: a registration with bus 256 was rejected after an earlier
\* registration, refused by the hypervisor, had filled the configuration space
C16_Witness ==
    /\ op[1] = "pci_device_register"
    /\ op[2].bus = 256
    /\ ret = -1
    /\ calls = <<>>
    /\ hvpci = {}
    /\ bdf = 7
    /\ Get16(config, PCI_VENDOR_ID) = op[2].vendor_id
    /\ mask[PCI_INTERRUPT_LINE] = 255

\* C17 as stated: an access whose upper 32 address bits differ from the bdf is
\* ignored in both directions: a read returns 0xFFFFFFFF, a write changes no
\* configuration byte and causes no BAR map or unmap.
C17_MismatchIgnored ==
    [][/\ \A hi \in DevHis, r \in DevReads :
             (hi # bdf /\ pci_config_read(hi, r[1], r[2])) => ret' = Ones32
       /\ \A hi \in DevHis, w \in DevWrites :
             (hi # bdf /\ pci_config_write(hi, w[1], w[2], w[3], "wrap"))
             => (config' = config /\ bar' = bar /\ hvio' = hvio /\ calls' = <<>>)
    ]_vars

\* the part of C17 that holds: reads, and writes whose upper address bits
\* differ from the bdf in their low 16 bits
C17_MismatchIgnoredLow16 ==
    [][/\ \A hi \in DevHis, r \in DevReads :
             (hi # bdf /\ pci_config_read(hi, r[1], r[2])) => ret' = Ones32
       /\ \A hi \in DevHis, w \in DevWrites :
             (hi % 65536 # bdf /\ pci_config_write(hi, w[1], w[2], w[3], "wrap"))
             => (config' = config /\ bar' = bar /\ hvio' = hvio /\ calls' = <<>>)
    ]_vars

(***************************************************************************)
(* Configuration writes with an offset packed into size (specification     *)
(* SpecWr)                                                                 *)
(***************************************************************************)
\* size with an offset in its bits 16 and up
Packed(offset, length) == offset * 65536 + length

\* what a build makes of val >> (i * 8) for i >= 4
ShiftOutcomes == {"wrap", "zero"}

\* configuration writes served: (lo, size, val)
WrReqs ==
    { <<PCI_CONFIG_HEADER_SIZE, 1, <<165, 0, 0, 0>> >>,
      <<PCI_CONFIG_HEADER_SIZE + 2, 2, <<17, 34, 0, 0>> >>,
      <<PCI_CONFIG_SIZE + PCI_CONFIG_HEADER_SIZE + 4, 4, <<1, 2, 3, 4>> >>,
      <<PCI_CONFIG_HEADER_SIZE, Packed(16, 2), <<51, 68, 0, 0>> >>,
      <<PCI_VENDOR_ID, Packed(PCI_COMMAND, 2), <<3, 0, 0, 0>> >>,
      <<BarReg(0), 4, <<0, 16, 0, 0>> >>,
      <<PCI_VENDOR_ID, Packed(BarReg(0), 4), <<0, 48, 0, 0>> >>,
      <<PCI_CONFIG_SIZE - 2, 4, <<85, 102, 2, 0>> >>,
      <<PCI_CONFIG_SIZE - 16, Packed(18, 4), <<9, 9, 2, 0>> >>,
      <<PCI_INTERRUPT_LINE, 8, <<7, 0, 0, 119>> >> }

NextWr ==
    \/ pci_device_register(TheInfo, 0)
    \/ pci_bar_register(0, 0, 12, OpsTable(BasicOps \cup {"map", "unmap"}))
    \/ Start
    \/ \E w \in WrReqs, ub \in ShiftOutcomes :
          pci_config_write(bdf, w[1], w[2], w[3], ub)

SpecWr == Init /\ [][NextWr]_vars

\* the first offset and the length a write (lo, size) asks for
AskedStart(lo, size) == (lo % 256) + (size \div 65536)
AskedLen(size) == size % 65536

\* C13: a write modifies only the bytes at (addr AND 0xff) + (size >> 16) + i,
\* 0 <= i < (size AND 0xffff), that lie below 256, without wrap-around to low
\* offsets; byte i < 4 is merged from byte i of val under the write mask.
C13_WriteRange ==
    [][\A w \in WrReqs, ub \in ShiftOutcomes :
          pci_config_write(bdf, w[1], w[2], w[3], ub)
          => \A o \in Off :
                LET i == o - AskedStart(w[1], w[2])
                IN  IF i < 0 \/ i >= AskedLen(w[2])
                    THEN config'[o] = config[o]
                    ELSE /\ And8(config'[o], 255 - mask[o])
                              = And8(config[o], 255 - mask[o])
                         /\ i < 4 => And8(config'[o], mask[o])
                                        = And8(w[3][i + 1], mask[o])
    ]_vars

\* C13 witness: the two bytes at 0x50 were written through an offset of 16
\* packed into size, the bytes before them keep their values, and a write
\* running past offset 255 has left COMMAND as registered.
C13_Witness ==
    /\ op[1] = "pci_config_write"
    /\ config[PCI_CONFIG_HEADER_SIZE + 16] = 51
    /\ config[PCI_CONFIG_HEADER_SIZE + 17] = 68
    /\ config[PCI_CONFIG_HEADER_SIZE + 1] = 0
    /\ config[PCI_CONFIG_SIZE - 1] = 102
    /\ Get16(config, PCI_COMMAND) = TheInfo.command

(***************************************************************************)
(* Deregistration of BARs among configuration accesses (specification      *)
(* SpecTd)                                                                 *)
(***************************************************************************)
\* BAR registrations tried: (index, type, order, ops)
TdRegs ==
    { <<0, 0, 12, OpsTable(BasicOps \cup {"map", "unmap"})>>,
      <<1, PCI_BASE_ADDRESS_SPACE_IO, 4, OpsTable(BasicOps)>> }

\* configuration writes served: (lo, size, val)
TdWrites ==
    { <<PCI_COMMAND, 2, <<3, 0, 0, 0>> >>,
      <<PCI_COMMAND, 2, Zero32>>,
      <<BarReg(0), 4, <<0, 16, 0, 0>> >>,
      <<BarReg(0), 4, <<0, 32, 0, 0>> >>,
      <<BarReg(1), 4, <<1, 193, 0, 0>> >> }

NextTd ==
    \/ pci_device_register(TheInfo, 0)
    \/ \E r \in TdRegs : pci_bar_register(r[1], r[2], r[3], r[4])
    \/ Start
    \/ \E w \in TdWrites : pci_config_write(bdf, w[1], w[2], w[3], "wrap")
    \/ \E data \in ResumeImages : pci_config_resume(data)
    \/ \E index \in BarIdx : pci_bar_deregister(index)

SpecTd == Init /\ [][NextTd]_vars

\* the hypervisor holds a range for BAR i
HvMapped(i) == hvio[i][1] = "xc_hvm_map_io_range_to_ioreq_server"

\* C18 as stated: for each registered BAR the recorded address differs from
\* PCI_BAR_UNMAPPED exactly when its range is mapped with the hypervisor; so
\* after pci_bar_deregister of a mapped BAR pci_bar_get finds no BAR in its
\* former range.
C18_RecordedIffMapped ==
    \A i \in BarIdx :
        bar[i].enable # 0
        => /\ (bar[i].addr # PCI_BAR_UNMAPPED) <=> HvMapped(i)
           /\ (op = <<"pci_bar_deregister", i>> /\ calls # <<>>)
              => pci_bar_get(calls[1][3], calls[1][4]) = PCI_NUM_BAR

\* the part of C18 that holds: the same, until a BAR is deregistered
C18_RecordedIffMappedBeforeTeardown ==
    phase # "teardown"
    => \A i \in BarIdx :
          bar[i].enable # 0 => ((bar[i].addr # PCI_BAR_UNMAPPED) <=> HvMapped(i))

\* C19 as stated: pci_bar_deregister asks the hypervisor to unmap only for a
\* BAR that is currently mapped; for a slot never registered, or a registered
\* BAR that is unmapped, it makes no hypervisor call.
C19_DeregisterUnmapsMapped ==
    [][\A i \in BarIdx :
          (pci_bar_deregister(i) /\ (bar[i].enable = 0 \/ ~HvMapped(i)))
          => calls' = <<>>
    ]_vars

\* the part of C19 that holds: no call for a registered BAR recorded as
\* unmapped
C19_DeregisterOfUnmappedRecord ==
    [][\A i \in BarIdx :
          (pci_bar_deregister(i) /\ bar[i].addr = PCI_BAR_UNMAPPED)
          => calls' = <<>>
    ]_vars

(***************************************************************************)
(* The sizing probe of a BAR (specification SpecProbe)                     *)
(***************************************************************************)
\* BAR registrations tried: (index, type, order, ops); one type per (index, order)
ProbeRegs ==
    { <<0, 0, 12, OpsTable(BasicOps \cup {"map", "unmap"})>>,
      <<0, 8, 4, OpsTable(BasicOps)>>,
      <<0, 8, 2, OpsTable(BasicOps)>>,
      <<1, PCI_BASE_ADDRESS_SPACE_IO, 8, OpsTable(BasicOps)>>,
      <<1, PCI_BASE_ADDRESS_SPACE_IO, 2, OpsTable(BasicOps)>>,
      <<1, PCI_BASE_ADDRESS_SPACE_IO, 1, OpsTable(BasicOps)>> }

\* configuration writes served besides the probes: (lo, size, val)
ProbeWrites ==
    { <<PCI_COMMAND, 2, <<3, 0, 0, 0>> >>,
      <<PCI_COMMAND, 2, Zero32>>,
      <<BarReg(0), 4, <<0, 16, 0, 0>> >>,
      <<BarReg(1), 4, <<0, 193, 0, 0>> >>,
      <<BarReg(0), 4, Zero32>> }

\* the BARs probed
ProbedBars == {0, 1}

NextProbe ==
    \/ pci_device_register(TheInfo, 0)
    \/ \E r \in ProbeRegs : pci_bar_register(r[1], r[2], r[3], r[4])
    \/ Start
    \/ \E w \in ProbeWrites : pci_config_write(bdf, w[1], w[2], w[3], "wrap")
    \/ \E i \in ProbedBars : pci_config_write(bdf, BarReg(i), 4, Ones32, "wrap")
    \/ \E i \in ProbedBars : pci_config_read(bdf, BarReg(i), 4)

SpecProbe == Init /\ [][NextProbe]_vars

\* the step is the probe of BAR r[1], registered as r
ProbeOf(r) ==
    /\ bar[r[1]].enable # 0
    /\ bar[r[1]].size = LE32(Pow2(r[3]))
    /\ pci_config_write(bdf, BarReg(r[1]), 4, Ones32, "wrap")

\* after the step the register of BAR r[1] reads ~(size - 1) OR the type
ReadsBackSize(r) ==
    ConfigRead(bdf, BarReg(r[1]), 4)'
        = [k \in 1..4 |-> Or8(255 - LE32(Pow2(r[3]) - 1)[k], FromU8(r[2])[k])]

\* after the step BAR i is unmapped and the step asked for no mapping of it
LeftUnmapped(i) ==
    /\ bar'[i].addr = PCI_BAR_UNMAPPED
    /\ \A k \in 1..Len(calls') :
          ~(calls'[k][1] \in {"xc_hvm_map_io_range_to_ioreq_server", "ops->map"}
            /\ calls'[k][2] = i)

\* C20 as stated: writing 0xFFFFFFFF to the register of a registered BAR of
\* size 2^order makes it read back ~(size - 1) OR the registered type bits and
\* leaves the BAR unmapped, whatever the decode bits of COMMAND.
C20_ProbeLeavesUnmapped ==
    [][\A r \in ProbeRegs :
          ProbeOf(r) => (ReadsBackSize(r) /\ LeftUnmapped(r[1]))]_vars

\* C20 amended: the register reads back ~(size - 1) OR the type bits for every
\* registered BAR; the BAR is left unmapped when its size is at least that of
\* its type field (16 bytes for memory, 4 for I/O).
C20_Probe ==
    [][\A r \in ProbeRegs :
          ProbeOf(r)
          => /\ ReadsBackSize(r)
             /\ CoversTypeBits(bar[r[1]]) => LeftUnmapped(r[1])]_vars

\* C20 witness: the 4 KiB BAR 0, mapped while memory decoding is on, was
\* probed: it was unmapped and its register holds ~(size - 1).
C20_Witness ==
    /\ op[1] = "pci_config_write"
    /\ bar[0].size = Bit32(12)
    /\ Get32(config, BarReg(0)) = <<0, 240, 255, 255>>
    /\ Get16(config, PCI_COMMAND) = 3
    /\ bar[0].addr = PCI_BAR_UNMAPPED
    /\ Len(calls) = 2
    /\ calls[1][1] = "xc_hvm_unmap_io_range_from_ioreq_server"
    /\ calls[2] = <<"ops->unmap", 0>>

(***************************************************************************)
(* Writes that leave a BAR where it is (specification Spec)                *)
(***************************************************************************)
\* the address the configuration space gives BAR i: its address field when
\* its space is decoded and the field is neither 0 nor ~(size - 1)
Effective(i) == IF Mappable(i) THEN AddrField(i) ELSE PCI_BAR_UNMAPPED

\* C21: a configuration write that does not change a BAR's effective address
\* makes no hypervisor map or unmap and no handler map or unmap for that BAR;
\* writing the same value twice has the effect of writing it once: the same
\* write served again stores the bytes already there, and a write that changes
\* no byte makes no call and moves no BAR.
C21_UnchangedAddressNoCalls ==
    [][\A w \in CfgWrites :
          pci_config_write(w[1], w[2], w[3], w[4], "wrap")
          => /\ \A i \in BarIdx :
                   (bar[i].enable # 0 /\ Effective(i)' = Effective(i))
                   => (CallsOf(i) = <<>> /\ bar'[i] = bar[i] /\ hvio'[i] = hvio[i])
             /\ config' = config => (calls' = <<>> /\ bar' = bar /\ hvio' = hvio)
             /\ w[1] = bdf
                => WriteLoop(config', mask', WriteStart(w[2], w[3]),
                             WriteLen(w[3]), w[4], "wrap", 0) = config'
    ]_vars

\* C21 witness: a write served while BAR 0 is mapped at 0x1000 and BAR 1 is
\* registered made no call at all
C21_Witness ==
    /\ op[1] = "pci_config_write"
    /\ bar[0].addr = <<0, 16, 0, 0>>
    /\ HvMapped(0)
    /\ bar[1].enable # 0
    /\ config[PCI_INTERRUPT_LINE] = 255
    /\ calls = <<>>

(***************************************************************************)
(* Save and restore (specification Spec)                                   *)
(***************************************************************************)
\* the BARs of a freshly registered device with the same BARs registered
FreshBars ==
    [i \in BarIdx |-> IF bar[i].enable # 0
                      THEN [bar[i] EXCEPT !.addr = PCI_BAR_UNMAPPED]
                      ELSE bar[i]]

\* the mapped BARs among b, with their addresses
MappedSet(b) ==
    {<<i, b[i].addr>> : i \in {j \in BarIdx : b[j].enable # 0
                                             /\ b[j].addr # PCI_BAR_UNMAPPED}}

\* the BARs of that fresh device once the image pci_config_ptr gives here has
\* been restored into it by pci_config_resume
Restored == UpdateBars(config, FreshBars)

\* C22: pci_config_resume makes the configuration space equal to the image
\* byte for byte, without the write masks, and re-derives the mapping of every
\* registered BAR from it; so an image taken with pci_config_ptr and restored
\* into a freshly registered device with the same BARs gives the same bytes
\* and the same mapped BAR addresses as the device had.
C22_RoundTrip ==
    /\ [][\A data \in ResumeImages :
             pci_config_resume(data)
             => /\ config' = data
                /\ mask' = mask
                /\ \A i \in BarIdx :
                      bar[i].enable # 0 => bar'[i].addr = Effective(i)'
         ]_vars
    /\ [](MappedSet(Restored) = MappedSet(bar))

\* C22 witness: an image whose vendor ID a masked write could not store was
\* restored; BAR 0 is mapped at the image's address, and restoring the device's
\* own image into a fresh device maps BAR 0 there too.
C22_Witness ==
    /\ op[1] = "pci_config_resume"
    /\ Get16(config, PCI_VENDOR_ID) = 0
    /\ Get32(config, BarReg(0)) = <<7, 48, 0, 0>>
    /\ bar[0].addr = <<0, 48, 0, 0>>
    /\ HvMapped(0)
    /\ MappedSet(Restored) = {<<0, <<0, 48, 0, 0>> >>}

=============================================================================
